---- MODULE Spec2Model ----
(***************************************************************************)
(* SimplifiedHopfieldTSP (src/Hopfield.py): the neuron matrix V, the       *)
(* energy function, the asynchronous update rule, the training loop and    *)
(* the route decoding, as a state machine.                                 *)
(*                                                                         *)
(* Indices are 0-based as in the source: V[i][j] = 1 reads "point i+1 is   *)
(* visited at step j".  Weights and distances are integers here, so every  *)
(* energy is an integer and abs(x) < 1 is x = 0.                           *)
(***************************************************************************)
EXTENDS Integers, Sequences, FiniteSets

VARIABLES
    N,                \* self.N
    d,                \* self.d, d[i][k]
    A, B, C, D,       \* self.A .. self.D
    V,                \* self.V, V[i][j] \in {0, 1}
    max_iter,         \* train's parameter
    energy_threshold, \* train's parameter
    iter,             \* train's loop index: the iteration to start next
    energy_history,   \* train's local list
    pc,               \* where the caller is
    ret               \* what the last call returned or raised

vars == <<N, d, A, B, C, D, V, max_iter, energy_threshold, iter,
          energy_history, pc, ret>>

----------------------------------------------------------------------------
(* Bounds and inputs *)

\* the largest max_iter handed to train in Spec
MaxIter == 12

\* the max_iter handed to train in the five-point scenario Spec5
MaxIter5 == 1

\* sizes of the small instances
Sizes == {2, 3}

Idx(n) == 0 .. (n - 1)

\* distance matrices of the small instances, as rows
DistRows(n) ==
    IF n = 2 THEN { <<<<0, 3>>, <<3, 0>>>> }
    ELSE { <<<<0, 1, 2>>, <<1, 0, 3>>, <<2, 3, 0>>>>,
           <<<<0, 2, 1>>, <<3, 0, 1>>, <<1, 2, 0>>>> }

\* a matrix given by rows, indexed from 0
Matrix(n, rows) == [i \in Idx(n) |-> [k \in Idx(n) |-> rows[i + 1][k + 1]]]

\* the example of main()
ExampleRows ==
    << <<0, 80, 150, 120, 200>>,
       <<80, 0, 130, 90, 180>>,
       <<150, 130, 0, 60, 250>>,
       <<120, 90, 60, 0, 220>>,
       <<200, 180, 250, 220, 0>> >>

\* __init__'s defaults
DefaultA == 100
DefaultB == 100
DefaultC == 100
DefaultD == 1
\* train's default energy_threshold
DefaultThreshold == 10

DefaultWeights == [A |-> DefaultA, B |-> DefaultB, C |-> DefaultC, D |-> DefaultD]

\* weights of the small instances: the defaults, and two settings small
\* enough for the row term to outweigh the others
WeightSets == { DefaultWeights,
                [A |-> 4, B |-> 1, C |-> 1, D |-> 0],
                [A |-> 5, B |-> 1, C |-> 1, D |-> 1] }

----------------------------------------------------------------------------
(* Sums *)

RECURSIVE SumTo(_, _)
\* f[0] + ... + f[n-1]
SumTo(f, n) == IF n = 0 THEN 0 ELSE f[n - 1] + SumTo(f, n - 1)

\* np.sum(v[i, :])
RowSumOf(v, n, i) == SumTo(v[i], n)
\* np.sum(v[:, j])
ColSumOf(v, n, j) == SumTo([i \in Idx(n) |-> v[i][j]], n)
\* np.sum(v)
TotalOf(v, n) == SumTo([i \in Idx(n) |-> RowSumOf(v, n, i)], n)

RowSum(i) == RowSumOf(V, N, i)
ColSum(j) == ColSumOf(V, N, j)
Total == TotalOf(V, N)

Sq(x) == x * x
Abs(x) == IF x < 0 THEN -x ELSE x

----------------------------------------------------------------------------
(* __init__ *)

\* __init__ with the second loop's test of the column sum left out: every
\* column j draws a row g[j]
ConstructBackfillAll(n, f, g) ==
    [i \in Idx(n) |-> [j \in Idx(n) |->
        IF i = 0 /\ j = 0 THEN 1
        ELSE IF i >= 1 /\ j >= 1 /\ (f[i] = j \/ g[j] = i) THEN 1 ELSE 0]]

\* __init__ without its second loop: an empty column stays empty
ConstructNoBackfill(n, f, g) ==
    [i \in Idx(n) |-> [j \in Idx(n) |->
        IF i = 0 /\ j = 0 THEN 1
        ELSE IF i >= 1 /\ j >= 1 /\ f[i] = j THEN 1 ELSE 0]]

\* The matrix __init__ leaves for size n, when row i (1..n-1) draws column
\* f[i], and column j (1..n-1), if the row pass left it empty, draws row g[j].
\* A backfill writes only its own column, so the test of column j sees the
\* row pass alone.
Construct(n, f, g) ==
    LET rowpass == [i \in Idx(n) |-> [j \in Idx(n) |->
                      IF i = 0 /\ j = 0 THEN 1
                      ELSE IF i >= 1 /\ j >= 1 /\ f[i] = j THEN 1 ELSE 0]]
    IN  [i \in Idx(n) |-> [j \in Idx(n) |->
            IF i >= 1 /\ j >= 1 /\ ColSumOf(rowpass, n, j) = 0 /\ g[j] = i
            THEN 1 ELSE rowpass[i][j]]]

\* np.random.randint(1, self.N) for each row, and for each column
Draws(n) == [1 .. (n - 1) -> 1 .. (n - 1)]

----------------------------------------------------------------------------
(* energy_function *)

\* the penalty each violated start check adds to constraint4
StartPenalty == 1000
\* the factor of constraint4 in total_energy
StartWeight == 1000

\* the step after j with the tour left open: the last step has no successor
\* but itself
NextStepOpen(j) == IF j = N - 1 THEN j ELSE j + 1

\* the step after j; the last step returns to step 0
NextStep(j) == IF j = N - 1 THEN 0 ELSE j + 1

constraint1 == SumTo([i \in Idx(N) |-> Sq(RowSum(i) - 1)], N)
constraint2 == SumTo([j \in Idx(N) |-> Sq(ColSum(j) - 1)], N)
constraint3 == Sq(Total - N)
\* constraint4 without the check of column 0
constraint4NoColumn ==
      (IF V[0][0] # 1 THEN StartPenalty ELSE 0)
    + (IF RowSum(0) - V[0][0] > 0 THEN StartPenalty ELSE 0)

constraint4 ==
      (IF V[0][0] # 1 THEN StartPenalty ELSE 0)
    + (IF RowSum(0) - V[0][0] > 0 THEN StartPenalty ELSE 0)
    + (IF ColSum(0) - V[0][0] > 0 THEN StartPenalty ELSE 0)

distance_term ==
    SumTo([j \in Idx(N) |->
        SumTo([i \in Idx(N) |->
            SumTo([k \in Idx(N) |-> d[i][k] * V[i][j] * V[k][NextStep(j)]], N)],
        N)], N)

total_energy ==
    A * constraint1 + B * constraint2 + C * constraint3
        + StartWeight * constraint4 + D * distance_term

\* the tuple energy_function returns
energy_function ==
    [total |-> total_energy, c1 |-> constraint1, c2 |-> constraint2,
     c3 |-> constraint3, dt |-> distance_term]

----------------------------------------------------------------------------
(* update_neuron *)

PrevStep(j) == IF j = 0 THEN N - 1 ELSE j - 1

\* input_val with the column and count terms written like the row term
input_val_like_row(i, j) ==
    (-A * RowSum(i) + A)
    + (-B * ColSum(j) + B)
    + (-C * Total + C * N)
    - SumTo([k \in Idx(N) |->
          D * d[k][i] * V[k][PrevStep(j)] + D * d[i][k] * V[k][(j + 1) % N]], N)

\* input_val of update_neuron for the cell (i, j)
input_val(i, j) ==
    (-A * RowSum(i) + A)
    - (B * ColSum(j) + B)
    - (C * Total + C * N)
    - SumTo([k \in Idx(N) |->
          D * d[k][i] * V[k][PrevStep(j)] + D * d[i][k] * V[k][(j + 1) % N]], N)

\* update_neuron with the activation test >= 0
update_neuron_ge(i, j) ==
    [V EXCEPT ![i][j] = IF input_val(i, j) >= 0 THEN 1 ELSE 0]

\* self.V after update_neuron drew the cell (i, j)
update_neuron(i, j) ==
    [V EXCEPT ![i][j] = IF input_val(i, j) > 0 THEN 1 ELSE 0]

----------------------------------------------------------------------------
(* the end of train: the route and its length *)

RECURSIVE ColumnVisits(_, _)
\* the points i+1 with V[i][j] = 1 for i < n, in the order of the scan
ColumnVisits(j, n) ==
    IF n = 0 THEN <<>>
    ELSE IF V[n - 1][j] = 1 THEN Append(ColumnVisits(j, n - 1), n)
         ELSE ColumnVisits(j, n - 1)

RECURSIVE VisitsTo(_)
\* the visits of the steps 0 .. m-1
VisitsTo(m) == IF m = 0 THEN <<>> ELSE VisitsTo(m - 1) \o ColumnVisits(m - 1, N)

\* total_distance of a route
RouteLength(route) ==
    SumTo([t \in 0 .. (Len(route) - 2) |-> d[route[t + 1] - 1][route[t + 2] - 1]],
          Len(route) - 1)

\* what train's last lines return; route[0] of an empty list raises IndexError
decode ==
    LET visits == VisitsTo(N)
    IN  IF visits = <<>> THEN [kind |-> "IndexError"]
        ELSE LET route == Append(visits, visits[1])
             IN  [kind |-> "ok", route |-> route,
                  total_distance |-> RouteLength(route)]

----------------------------------------------------------------------------
(* train *)

\* the iteration index after which a flat energy stops the loop
PlateauAfter == 10

\* the break tests with the plateau test one iteration early
StopNowEarly(h, k) ==
    \/ h[Len(h)] < energy_threshold
    \/ (k >= PlateauAfter /\ Abs(h[Len(h)] - h[Len(h) - 1]) < 1)

\* train's two break tests, after the energy was appended: h is
\* energy_history, k the loop index
StopNow(h, k) ==
    \/ h[Len(h)] < energy_threshold
    \/ (k > PlateauAfter /\ Abs(h[Len(h)] - h[Len(h) - 1]) < 1)

\* whether the loop is left at the top of iteration iter: the range is
\* exhausted, or the energy just appended breaks it
LoopEnds(h) == IF iter >= max_iter THEN TRUE ELSE StopNow(h, iter)

\* one iteration that goes on: the energy is appended, no break test
\* holds, and update_neuron draws a cell (i, j)
TrainUpdate ==
    /\ pc = "train"
    /\ iter < max_iter
    /\ LET h == Append(energy_history, total_energy)
       IN  /\ ~StopNow(h, iter)
           /\ energy_history' = h
    /\ \E i \in Idx(N), j \in Idx(N) : V' = update_neuron(i, j)
    /\ iter' = iter + 1
    /\ UNCHANGED <<N, d, A, B, C, D, max_iter, energy_threshold, pc, ret>>

\* the loop ends, by a break after the energy was appended or with the
\* range exhausted (nothing is appended then); the route is read off V and
\* train returns, or raises
TrainReturn ==
    /\ pc = "train"
    /\ LET h == Append(energy_history, total_energy)
       IN  /\ LoopEnds(h)
           /\ energy_history' = IF iter < max_iter THEN h ELSE energy_history
    /\ ret' = decode
    /\ pc' = "done"
    /\ UNCHANGED <<N, d, A, B, C, D, V, max_iter, energy_threshold, iter>>

Next ==
    \/ TrainUpdate
    \/ TrainReturn

----------------------------------------------------------------------------
(* the methods called one at a time on any binary matrix *)

CallEnergy ==
    /\ pc = "call"
    /\ ret' = [kind |-> "energy", value |-> energy_function]
    /\ pc' = "returned"
    /\ UNCHANGED <<N, d, A, B, C, D, V, max_iter, energy_threshold, iter,
                   energy_history>>

CallUpdate(i, j) ==
    /\ pc = "call"
    /\ V' = update_neuron(i, j)
    /\ ret' = [kind |-> "update", i |-> i, j |-> j]
    /\ UNCHANGED <<N, d, A, B, C, D, max_iter, energy_threshold, iter,
                   energy_history, pc>>

CallDecode ==
    /\ pc = "call"
    /\ ret' = decode
    /\ pc' = "decoded"
    /\ UNCHANGED <<N, d, A, B, C, D, V, max_iter, energy_threshold, iter,
                   energy_history>>

NextFn ==
    \/ CallEnergy
    \/ \E i \in Idx(N), j \in Idx(N) : CallUpdate(i, j)
    \/ CallDecode

----------------------------------------------------------------------------
(* Initial states and specifications *)

InitSelf(n, rows, w, v) ==
    /\ N = n
    /\ d = Matrix(n, rows)
    /\ A = w.A /\ B = w.B /\ C = w.C /\ D = w.D
    /\ V = v

InitTrain(m, thr) ==
    /\ max_iter = m
    /\ energy_threshold = thr
    /\ iter = 0
    /\ energy_history = <<>>
    /\ ret = [kind |-> "none"]

\* distances and weights handed to train in the small instances: the
\* defaults, and for two points also weights with A > B + C*N
TrainDistRows(n) ==
    IF n = 2 THEN DistRows(2) ELSE { <<<<0, 1, 2>>, <<1, 0, 3>>, <<2, 3, 0>>>> }

TrainWeightSets(n) ==
    IF n = 2 THEN { DefaultWeights, [A |-> 4, B |-> 1, C |-> 1, D |-> 2] }
    ELSE { DefaultWeights }

\* a solver of a small instance right after construction, train called
Init ==
    /\ \E n \in Sizes : \E rows \in TrainDistRows(n), w \in TrainWeightSets(n),
          f \in Draws(n), g \in Draws(n) :
            InitSelf(n, rows, w, Construct(n, f, g))
    /\ \E m \in {0, 1, MaxIter} : InitTrain(m, DefaultThreshold)
    /\ pc = "train"

Spec == Init /\ [][Next]_vars

\* the five-point example of main() with the default weights
Init5 ==
    /\ \E f \in Draws(5), g \in Draws(5) :
          InitSelf(5, ExampleRows, DefaultWeights, Construct(5, f, g))
    /\ InitTrain(MaxIter5, DefaultThreshold)
    /\ pc = "train"

Spec5 == Init5 /\ [][Next]_vars

\* any binary matrix of a small instance, before a call
InitFn ==
    /\ \E n \in Sizes : \E rows \in DistRows(n), w \in WeightSets,
          v \in [Idx(n) -> [Idx(n) -> {0, 1}]] :
            InitSelf(n, rows, w, v)
    /\ InitTrain(0, DefaultThreshold)
    /\ pc = "call"

SpecFn == InitFn /\ [][NextFn]_vars

----------------------------------------------------------------------------
(* Properties *)

Binary == \A i \in Idx(N), j \in Idx(N) : V[i][j] \in {0, 1}

\* V[0][0] is the only 1 of row 0 and of column 0, and every other row and
\* every other column holds a 1
SeedInvariant ==
    /\ V[0][0] = 1
    /\ \A j \in 1 .. (N - 1) : V[0][j] = 0
    /\ \A i \in 1 .. (N - 1) : V[i][0] = 0
    /\ \A i \in 1 .. (N - 1) : \E j \in 1 .. (N - 1) : V[i][j] = 1
    /\ \A j \in 1 .. (N - 1) : \E i \in 1 .. (N - 1) : V[i][j] = 1

StartsAndEndsAtPoint1(r) ==
    /\ r.kind = "ok"
    /\ r.route[1] = 1
    /\ r.route[Len(r.route)] = 1

\* C1: right after construction V is binary and satisfies the seed invariant,
\* and decoding the untrained state (directly, or by train with max_iter = 0)
\* does not fail and gives a route that starts and ends at point 1.
C1_SeedAfterConstruction ==
    /\ (pc = "train" /\ iter = 0) =>
          Binary /\ SeedInvariant /\ StartsAndEndsAtPoint1(decode)
    /\ (pc = "done" /\ max_iter = 0) =>
          Binary /\ SeedInvariant /\ StartsAndEndsAtPoint1(ret)

\* the untrained state of a three-point instance was decoded, a column of it
\* holding two points
C1_Witness ==
    /\ pc = "done" /\ max_iter = 0 /\ N = 3
    /\ ret.kind = "ok" /\ Len(ret.route) = 5

\* the number of violated start checks
StartViolations ==
      (IF V[0][0] # 1 THEN 1 ELSE 0)
    + (IF \E j \in 1 .. (N - 1) : V[0][j] = 1 THEN 1 ELSE 0)
    + (IF \E i \in 1 .. (N - 1) : V[i][0] = 1 THEN 1 ELSE 0)

\* C5 as claimed: the total energy is A*row + B*col + C*count + 1000*s +
\* D*distance, s the number of violated start checks.
C5_Original ==
    ret.kind = "energy" =>
        ret.value.total = A * ret.value.c1 + B * ret.value.c2 + C * ret.value.c3
                            + 1000 * StartViolations + D * ret.value.dt

\* C5 amended: each violated start check adds 1000 to the start term, which
\* enters the total with the factor 1000, so the total energy is A*row +
\* B*col + C*count + 1000000*s + D*distance, s in {0,1,2,3} the number of
\* violated start checks, whatever A, B, C, D are.
C5_StartPenaltyMillion ==
    ret.kind = "energy" =>
        /\ StartViolations \in 0 .. 3
        /\ ret.value.total =
              A * ret.value.c1 + B * ret.value.c2 + C * ret.value.c3
                + 1000000 * StartViolations + D * ret.value.dt

\* the energy of a matrix that violates all three start checks was returned
C5_Witness == ret.kind = "energy" /\ StartViolations = 3

\* V is a permutation matrix with the start point fixed
IsTour ==
    /\ V[0][0] = 1
    /\ \A i \in Idx(N) : RowSum(i) = 1
    /\ \A j \in Idx(N) : ColSum(j) = 1

\* the point (0-based) of step j of a permutation matrix
PointAt(j) == CHOOSE i \in Idx(N) : V[i][j] = 1

\* the length of the closed tour of a permutation matrix
TourLength ==
    SumTo([j \in Idx(N) |-> d[PointAt(j)][PointAt((j + 1) % N)]], N)

\* C6: for a permutation matrix with V[0][0] = 1 the row, column and count
\* terms are 0, the distance term is the length of the closed tour, and the
\* total energy is D times it (no start penalty).
C6_TourEnergy ==
    (ret.kind = "energy" /\ IsTour) =>
        /\ ret.value.c1 = 0 /\ ret.value.c2 = 0 /\ ret.value.c3 = 0
        /\ ret.value.dt = TourLength
        /\ ret.value.total = D * TourLength

\* the energy of a three-point tour other than the identity was returned
C6_Witness ==
    /\ ret.kind = "energy" /\ IsTour /\ N = 3
    /\ V[1][2] = 1 /\ ret.value.total > 0

\* C7 as claimed: decoding a matrix whose column 0 is empty fails with
\* InvalidTourError; otherwise a route is returned, every active cell one
\* visit of it and an empty later column none.
C7_Claim ==
    pc = "decoded" =>
        IF ColSum(0) = 0 THEN ret.kind = "InvalidTourError"
        ELSE ret.kind = "ok" /\ Len(ret.route) = Total + 1

\* what a call of update_neuron that drew the cell (i, j) changes
C9_UpdateStep ==
    (pc = "call" /\ pc' = "call") =>
        LET i == ret'.i
            j == ret'.j
        IN  /\ i \in Idx(N) /\ j \in Idx(N)
            /\ \A p \in Idx(N), q \in Idx(N) :
                  <<p, q>> # <<i, j>> => V'[p][q] = V[p][q]
            /\ V'[i][j] \in {0, 1}
            /\ V'[i][j] = 1 <=> input_val(i, j) > 0
            /\ <<N, d, A, B, C, D>>' = <<N, d, A, B, C, D>>

\* C9: V is binary after any sequence of updates, and an update_neuron call
\* draws one cell (i, j) of the N x N, leaves every other cell, the
\* distances, the weights and N as they were, and sets the cell to 1 if its
\* input is strictly positive and to 0 otherwise (an input of 0 gives 0).
C9_UpdateFrame == [](Binary) /\ [][C9_UpdateStep]_vars

\* update_neuron drew a cell of the empty matrix whose input is exactly 0,
\* and the cell is 0
C9_Witness ==
    /\ ret.kind = "update"
    /\ V[ret.i][ret.j] = 0
    /\ input_val(ret.i, ret.j) = 0
    /\ Total = 0

\* C2 as claimed: in the five-point example every route train returns starts
\* at point 1 and ends at point 1.
C2_Claim == pc = "done" => StartsAndEndsAtPoint1(ret)

\* C3 as claimed: with max_iter >= 1 train returns a route of at least N+1
\* point ids, each in 1..N.
C3_Claim ==
    (pc = "done" /\ max_iter >= 1) =>
        /\ ret.kind = "ok"
        /\ Len(ret.route) >= N + 1
        /\ \A t \in 1 .. Len(ret.route) : ret.route[t] \in 1 .. N

\* the closed tours of the five points from point 1, as step -> point
Tours5 ==
    { p \in [Idx(5) -> Idx(5)] :
        p[0] = 0 /\ \A a \in Idx(5), b \in Idx(5) : a # b => p[a] # p[b] }

TourLength5(p) ==
    SumTo([j \in Idx(5) |-> ExampleRows[p[j] + 1][p[(j + 1) % 5] + 1]], 5)

\* the length of the longest closed tour of the five points
WorstTour5 ==
    CHOOSE m \in { TourLength5(p) : p \in Tours5 } :
        \A p \in Tours5 : TourLength5(p) <= m

BreaksAt(h, k) ==
    \/ h[k + 1] < energy_threshold
    \/ (k > 10 /\ Abs(h[k + 1] - h[k]) < 1)

C8_Inv ==
    \* before train has returned a step can be taken
    /\ pc = "done" \/ ENABLED Next
    /\ iter <= max_iter
    /\ Len(energy_history) <= max_iter
    \* no iteration that went on to an update met a break test
    /\ \A k \in 0 .. (iter - 1) : ~BreaksAt(energy_history, k)
    /\ pc = "train" => Len(energy_history) = iter
    /\ pc = "done" =>
          /\ ret = decode
          /\ \/ /\ iter < max_iter
                /\ Len(energy_history) = iter + 1
                /\ energy_history[iter + 1] = total_energy
                /\ BreaksAt(energy_history, iter)
             \/ /\ iter = max_iter
                /\ Len(energy_history) = max_iter
    /\ (pc = "done" /\ max_iter = 0) => energy_history = <<>> /\ SeedInvariant

C8_Step ==
    pc = "train" =>
        \/ /\ pc' = "train"
           /\ iter < max_iter
           /\ iter' = iter + 1
           /\ energy_history' = Append(energy_history, total_energy)
           /\ ~BreaksAt(energy_history', iter)
           /\ \E i \in Idx(N), j \in Idx(N) :
                 \A p \in Idx(N), q \in Idx(N) :
                    <<p, q>> # <<i, j>> => V'[p][q] = V[p][q]
        \/ /\ pc' = "done"
           /\ iter' = iter
           /\ V' = V
           /\ iter = max_iter \/ BreaksAt(energy_history', iter)

\* C8: train starts at most max_iter iterations and terminates (it is never
\* stuck before it returns, and every step either returns or starts the next
\* iteration, iter growing towards max_iter); iteration k appends the energy
\* of the current state, leaves the loop without an update iff that energy is
\* below the threshold or k > 10 and the last two entries differ by less
\* than 1, and otherwise applies one update.  The trace has one entry per
\* iteration started; iter counts the updates: Len(trace) - 1 after a break,
\* max_iter with the range exhausted; max_iter = 0 decodes the initial state
\* with an empty trace.
C8_TrainLoop == [](C8_Inv) /\ [][C8_Step]_vars

\* train was left by the plateau test in iteration 11, after 11 updates
C8_Witness ==
    /\ pc = "done" /\ iter = 11 /\ Len(energy_history) = 12
    /\ energy_history[12] = energy_history[11]
    /\ energy_history[12] >= energy_threshold

\* the weights and distances are not negative and A <= B + C*N
NoPositiveInput ==
    /\ A >= 0 /\ B >= 0 /\ C >= 0 /\ D >= 0
    /\ \A i \in Idx(N), k \in Idx(N) : d[i][k] >= 0
    /\ A <= B + C * N

\* the distances from the point of the step before j to i and from i to
\* the point of the step after j
Links(i, j) ==
    SumTo([k \in Idx(N) |->
        d[k][i] * V[k][IF j = 0 THEN N - 1 ELSE j - 1]
          + d[i][k] * V[k][(j + 1) % N]], N)

\* the sliders of main(): A, B, C from SliderMin to SliderMax, D positive,
\* at least MinPoints points
SliderMin == 50
SliderMax == 200
MinPoints == 3

C10_Inv ==
    /\ DefaultA <= DefaultB + DefaultC * 2
    /\ SliderMax <= SliderMin + SliderMin * MinPoints
    /\ NoPositiveInput =>
        \A i \in Idx(N), j \in Idx(N) :
            /\ input_val(i, j) =
                  A * (1 - RowSum(i)) - B * (ColSum(j) + 1) - C * (Total + N)
                    - D * Links(i, j)
            /\ input_val(i, j) <= 0

C10_Step ==
    NoPositiveInput =>
        /\ \A i \in Idx(N), j \in Idx(N) : V'[i][j] <= V[i][j]
        /\ Total' <= Total

\* C10: when the weights and distances are not negative and A <= B + C*N
\* (so for the default weights, and for all weights of the sliders with
\* three or more points), the input of every cell is A*(1 - rowsum) - B*(colsum + 1) - C*(total + N)
\* - D*links and never strictly positive, and along a train run no cell goes
\* from 0 to 1 and the number of active cells never grows.
C10_OnlyClears == [](C10_Inv) /\ [][C10_Step]_vars

\* with such weights the first update of a run has cleared V[0][0]
C10_Witness ==
    /\ NoPositiveInput /\ pc = "train" /\ iter = 1 /\ V[0][0] = 0

====
